---- MODULE Spec2Model ----
\* Rain Risk Analyzer (src/app.py): the run started by the "Run Analysis" button,
\*   get_coordinates -> find_nearest_station -> fetch_precipitation_data -> process_data,
\* with the external services (geocoder, climate-data service) as nondeterministic
\* responders.
\*
\* Units.  Observation values are whole millimetres; inches are counted in units of
\* 1e-7 inch, so that MM_TO_INCHES = 0.0393701 inch/mm is the integer 393701 and the
\* product value * MM_TO_INCHES and its comparison with the threshold are exact.
\* A mean is kept as a reduced fraction [num, den].
\*
\* Pages.  The code never looks at the length of a page, only at whether it is
\* empty, and it advances the offset by RESULTS_PER_PAGE whatever the page held.
\* The service of the model holds store[y] records for year y and cuts them into
\* pages of PageLen records (the last one may be shorter): a record of the model
\* stands for a block of RESULTS_PER_PAGE / PageLen records.  Page number p (from 0)
\* is the one served at every offset of p * RESULTS_PER_PAGE + 1 .. (p + 1) *
\* RESULTS_PER_PAGE, and every offset beyond the last page gets an empty page.
EXTENDS Integers, Sequences, FiniteSets, TLC

VARIABLES pc, start_year, end_year, threshold_in, rain, store, geo,
          location, station_id, searches, year, offset, all_data, trace,
          data, result, outcome

vars == <<pc, start_year, end_year, threshold_in, rain, store, geo,
          location, station_id, searches, year, offset, all_data, trace,
          data, result, outcome>>

\* ---------------------------------------------------------------- constants
MM_TO_INCHES == 393701
RESULTS_PER_PAGE == 1000
MinYear == 2000

\* ------------------------------------------------------------------- bounds
\* the years the form accepts are MinYear .. the current year
NumYears == 2
\* the service holds at most MaxPages pages of PageLen records for a year
MaxPages == 2
PageLen == 2
\* process_data on its own: at most MaxLen records over AggYears years
MaxLen == 4
AggYears == 3

MaxYear == MinYear + NumYears - 1
Years == MinYear..MaxYear
\* the default of the form, 0.5 in
DefaultThreshold == 5000000
\* 0.393701 in (exactly 10 mm) and the default, both within [0.1, 3.0]
Thresholds == {10 * MM_TO_INCHES, DefaultThreshold}
\* 10 mm = 0.393701 in, 20 mm = 0.787402 in
RainValues == {10, 20}
Months == {6, 7}
\* no run of the code sends more requests than one per page plus the terminal one
MaxTrace == 2 * NumYears * (MaxPages + 1)

None == [kind |-> "None", rows |-> <<>>]
Unset == [kind |-> "unset", rows |-> <<>>]
Table(rows) == [kind |-> "table", rows |-> rows]

\* ------------------------------------------------------------ pure helpers
RECURSIVE GCD(_, _)
GCD(a, b) == IF b = 0 THEN a ELSE GCD(b, a % b)

Fraction(n, d) == [num |-> n \div GCD(n, d), den |-> d \div GCD(n, d)]

RECURSIVE SumDays(_)
SumDays(rows) ==
    IF rows = {} THEN 0
    ELSE LET r == CHOOSE x \in rows : TRUE IN r.days + SumDays(rows \ {r})

\* ------------------------------------------------------- the climate service
\* record n (from 1) of year y: one calendar month per page, the day numbered
\* through the year's records, every value the run's rainfall
ServiceRecord(y, n) ==
    [date |-> <<y, 1 + (n - 1) \div PageLen, n>>, value |-> rain]

Min(a, b) == IF a < b THEN a ELSE b

\* the records of page p (from 0) of a year that holds count records
PageRecords(y, p, count) ==
    [j \in 1..(Min((p + 1) * PageLen, count) - p * PageLen) |->
        ServiceRecord(y, p * PageLen + j)]

\* the number of non-empty pages of a year that holds count records
PageCount(count) == (count + PageLen - 1) \div PageLen

\* the "results" array of the response to a page request
ServicePage(y, off) ==
    LET p == (off - 1) \div RESULTS_PER_PAGE
    IN IF p < PageCount(store[y]) THEN PageRecords(y, p, store[y]) ELSE <<>>

\* ------------------------------------------------------------ get_coordinates
\* variant: a failed lookup is returned as absent coordinates instead of raised
get_coordinates_returns_none(resp) ==
    [raised |-> FALSE, coords |-> IF resp = "found" THEN "latlon" ELSE "None"]

get_coordinates(resp) ==
    IF resp = "found"
    THEN [raised |-> FALSE, coords |-> "latlon"]
    ELSE [raised |-> TRUE, coords |-> "unset"]

\* variant: the status of the response is not looked at
raise_for_status_skipped(status) == FALSE

\* response.raise_for_status()
raise_for_status(status) == status # "ok"

\* except Exception as e: st.error(...)
Error == /\ pc' = "done"
         /\ outcome' = "error"

\* ------------------------------------------------------------------- Init
Init ==
    /\ pc = "start"
    /\ start_year \in Years
    /\ end_year \in Years
    /\ threshold_in = DefaultThreshold
    /\ rain \in RainValues
    /\ store = [y \in Years |-> 0]
    /\ geo = "unset"
    /\ location = "unset"
    /\ station_id = "unset"
    /\ searches = 0
    /\ year = MinYear
    /\ offset = 1
    /\ all_data = <<>>
    /\ trace = <<>>
    /\ data = Unset
    /\ result = Unset
    /\ outcome = "running"

\* lat, lon = get_coordinates(address)
GetCoordinates ==
    /\ pc = "start"
    /\ \E resp \in {"found", "None", "unreachable"} :
         LET r == get_coordinates(resp) IN
         /\ geo' = resp
         /\ location' = r.coords
         /\ IF r.raised THEN Error
            ELSE /\ pc' = "locate"
                 /\ UNCHANGED outcome
    /\ UNCHANGED <<start_year, end_year, threshold_in, rain, store, station_id,
                   searches, year, offset, all_data, trace, data, result>>

\* station_id = find_nearest_station(lat, lon, NOAA_API_TOKEN)
FindNearestStation ==
    /\ pc = "locate"
    /\ searches' = searches + 1
    /\ \E resp \in {[status |-> "ok", results |-> <<"GHCND:USW00014842">>],
                    [status |-> "ok", results |-> <<>>],
                    [status |-> "error", results |-> <<>>]} :
         IF raise_for_status(resp.status)
         THEN /\ Error
              /\ UNCHANGED station_id
         ELSE /\ station_id' = IF resp.results # <<>> THEN resp.results[1] ELSE "None"
              /\ pc' = "fetch"
              /\ UNCHANGED outcome
    /\ UNCHANGED <<start_year, end_year, threshold_in, rain, store, geo, location,
                   year, offset, all_data, trace, data, result>>

\* entry of fetch_precipitation_data: all_data = [], the range iterator at start_year
FetchStart ==
    /\ pc = "fetch"
    /\ all_data' = <<>>
    /\ year' = start_year
    /\ pc' = "for"
    /\ UNCHANGED <<start_year, end_year, threshold_in, rain, store, geo, location,
                   station_id, searches, offset, trace, data, result, outcome>>

\* variant: the first year is queried whatever the range
InRange_first_year_always(y, last) == y < last + 1 \/ y = start_year

\* range(start_year, end_year + 1) has a next element
InRange(y, last) == y < last + 1

\* for year in range(...): offset = 1; after the last year, return all_data
ForYear ==
    /\ pc = "for"
    /\ IF InRange(year, end_year)
       THEN /\ offset' = 1
            /\ pc' = "while"
            /\ \E count \in 0..(MaxPages * PageLen) : store' = [store EXCEPT ![year] = count]
            /\ UNCHANGED data
       ELSE /\ data' = Table(all_data)
            /\ pc' = "process"
            /\ UNCHANGED <<offset, store>>
    /\ UNCHANGED <<start_year, end_year, threshold_in, rain, geo, location, station_id,
                   searches, year, all_data, trace, result, outcome>>

\* what the run did towards the data service: the page requests with the status
\* each got, and the time.sleep(0.2) calls
Request(y, off, status) == [kind |-> "request", year |-> y, offset |-> off, status |-> status]
Sleep == [kind |-> "sleep", year |-> 0, offset |-> 0, status |-> "ok"]

\* variant: the offset advances by one record instead of one page
NextOffset_by_one(off) == off + 1

\* variant: the offset is never advanced
NextOffset_stuck(off) == off

\* offset += RESULTS_PER_PAGE
NextOffset(off) == off + RESULTS_PER_PAGE

\* one pass of the while loop: request, raise_for_status, break or extend and sleep
PageRequest ==
    /\ pc = "while"
    /\ Len(trace) < MaxTrace
    /\ \E status \in {"ok", "error"} :
         LET batch == IF status = "ok" THEN ServicePage(year, offset) ELSE <<>> IN
         IF raise_for_status(status)
         THEN /\ Error
              /\ trace' = Append(trace, Request(year, offset, status))
              /\ UNCHANGED <<year, offset, all_data>>
         ELSE IF batch = <<>>
         THEN /\ year' = year + 1
              /\ pc' = "for"
              /\ trace' = Append(trace, Request(year, offset, status))
              /\ UNCHANGED <<offset, all_data, outcome>>
         ELSE /\ all_data' = all_data \o batch
              /\ offset' = NextOffset(offset)
              /\ trace' = trace \o <<Request(year, offset, status), Sleep>>
              /\ UNCHANGED <<pc, year, outcome>>
    /\ UNCHANGED <<start_year, end_year, threshold_in, rain, store, geo, location,
                   station_id, searches, data, result>>

\* ---------------------------------------------------------------- process_data
\* df["value"] = df["value"] * MM_TO_INCHES; df["date"] = pd.to_datetime(df["date"])
Converted(rows) ==
    [i \in DOMAIN rows |-> [date |-> rows[i].date, value |-> rows[i].value * MM_TO_INCHES]]

\* variant: a strict comparison
KeepRow_strict(value, threshold) == value > threshold

\* the row mask df["value"] >= threshold
KeepRow(value, threshold) == value >= threshold

\* df = df[df["value"] >= threshold]; df["year"], df["month"] from the date
Filtered(df, threshold) ==
    LET kept == SelectSeq(df, LAMBDA r : KeepRow(r.value, threshold))
    IN [i \in DOMAIN kept |->
           [year |-> kept[i].date[1], month |-> kept[i].date[2], value |-> kept[i].value]]

\* df.groupby(["year", "month"]).size().reset_index(name="days")
monthly_counts(df) ==
    { [year |-> df[i].year, month |-> df[i].month,
       days |-> Cardinality({k \in DOMAIN df :
                    df[k].year = df[i].year /\ df[k].month = df[i].month})]
      : i \in DOMAIN df }

\* variant: the mean is taken over every year of the requested range
MeanDays_over_range(group) == Fraction(SumDays(group), end_year - start_year + 1)

\* the mean of the "days" column of one month's group
MeanDays(group) == Fraction(SumDays(group), Cardinality(group))

month_map ==
    <<"January", "February", "March", "April", "May", "June",
      "July", "August", "September", "October", "November", "December">>

\* monthly_counts.groupby("month")["days"].mean().reset_index(), the months in
\* ascending order, then the month number mapped to its name
avg_days(counts) ==
    LET present == SelectSeq([m \in 1..12 |-> m],
                             LAMBDA m : \E r \in counts : r.month = m)
    IN [i \in DOMAIN present |->
           [month |-> month_map[present[i]],
            days |-> MeanDays({r \in counts : r.month = present[i]})]]

process_data(rows, threshold) ==
    IF rows = <<>>
    THEN None
    ELSE Table(avg_days(monthly_counts(Filtered(Converted(rows), threshold))))

\* result = process_data(data, threshold_in); st.success or st.warning
Process ==
    /\ pc = "process"
    /\ result' = process_data(data.rows, threshold_in)
    /\ outcome' = IF result' # None THEN "complete" ELSE "no_qualifying"
    /\ pc' = "done"
    /\ UNCHANGED <<start_year, end_year, threshold_in, rain, store, geo, location,
                   station_id, searches, year, offset, all_data, trace, data>>

Next ==
    \/ GetCoordinates
    \/ FindNearestStation
    \/ FetchStart
    \/ ForYear
    \/ PageRequest
    \/ Process

Spec == Init /\ [][Next]_vars

\* the run is one synchronous thread and every request returns or raises: a pass
\* of the fetch's loops that can be taken is taken
FairSpec ==
    /\ Spec
    /\ WF_vars(ForYear)
    /\ WF_vars(PageRequest)

\* -------------------------------------------- process_data on bounded inputs
AggYearSet == MinYear..(MinYear + AggYears - 1)

AggRecords == [year : AggYearSet, month : Months, value : RainValues]

AggChoices ==
    UNION { {s \in [1..n -> AggRecords] :
                \A i \in 1..n : \A k \in 1..n : i < k => s[i].year <= s[k].year}
            : n \in 0..MaxLen }

\* the records a fetch returned: the years in the order they were queried, one
\* record per calendar day
AggRows(s) ==
    [i \in DOMAIN s |-> [date |-> <<s[i].year, s[i].month, i>>, value |-> s[i].value]]

AggInit ==
    /\ pc = "process"
    /\ start_year = MinYear
    /\ end_year = MinYear + AggYears - 1
    /\ threshold_in \in Thresholds
    /\ rain = 0
    /\ store = [y \in Years |-> 0]
    /\ geo = "found"
    /\ location = "latlon"
    /\ station_id = "GHCND:USW00014842"
    /\ searches = 1
    /\ year = MinYear + AggYears
    /\ offset = 1
    /\ \E s \in AggChoices : /\ all_data = AggRows(s)
                             /\ data = Table(AggRows(s))
    /\ trace = <<>>
    /\ result = Unset
    /\ outcome = "running"

AggNext == Process

AggSpec == AggInit /\ [][AggNext]_vars

\* ------------------------------------------------------------------ history
IsRequest(e) == e.kind = "request"
Requests == SelectSeq(trace, IsRequest)
NoRequest == \A i \in DOMAIN trace : ~IsRequest(trace[i])

\* the offsets requested for year y, in the order they were sent
ReqOffsets(y) ==
    LET rs == SelectSeq(trace, LAMBDA e : IsRequest(e) /\ e.year = y)
    IN [i \in DOMAIN rs |-> rs[i].offset]

\* 1, 1001, ..., 1 + 1000 k
OffsetsUpTo(k) == [i \in 1..(k + 1) |-> 1 + (i - 1) * RESULTS_PER_PAGE]

IsPrefix(s, t) == Len(s) <= Len(t) /\ \A i \in DOMAIN s : s[i] = t[i]

\* the records of the non-empty pages the service holds for year y
YearRecords(y) ==
    [n \in 1..store[y] |-> ServiceRecord(y, n)]

\* ... and for the years first..last, in ascending order
RECURSIVE RangeRecords(_, _)
RangeRecords(first, last) ==
    IF first > last THEN <<>> ELSE YearRecords(first) \o RangeRecords(first + 1, last)

\* record k of the fetched data meets the threshold, in inches
Qualifying(k) == data.rows[k].value * MM_TO_INCHES >= threshold_in
QualifyingIn(y, m) ==
    {k \in DOMAIN data.rows :
        /\ data.rows[k].date[1] = y
        /\ data.rows[k].date[2] = m
        /\ Qualifying(k)}
DataYears == {data.rows[k].date[1] : k \in DOMAIN data.rows}
QualifyingInMonth(m) == UNION {QualifyingIn(y, m) : y \in DataYears}
QualifyingYears(m) == {y \in DataYears : QualifyingIn(y, m) # {}}
MonthNumber(name) == CHOOSE m \in 1..12 : month_map[m] = name

\* ---------------------------------------------------------------------- C1
\* C1: when the station search returned no station (station_id is None), the
\* observation fetch is never entered and no page request is sent, and the run ends
\* with the outcome "no station found".
C1_NoFetchWithoutStation ==
    station_id = "None" =>
        /\ pc \notin {"for", "while", "process"}
        /\ NoRequest
        /\ data = Unset
        /\ (pc = "done" => outcome = "no_station")

\* ---------------------------------------------------------------------- C2
\* C2: once process_data has run on records none of which meets the threshold
\* (an empty sequence included), its result is None and the run reports "no
\* qualifying rain days", never "analysis complete" with an empty table.
C2_NoneWhenNothingQualifies ==
    (pc = "done" /\ result # Unset /\ \A k \in DOMAIN data.rows : ~Qualifying(k)) =>
        /\ result = None
        /\ outcome = "no_qualifying"

\* ---------------------------------------------------------------------- C3
\* C3: between every two consecutive page requests a sleep occurs: no two requests
\* are adjacent in the history, the terminal request of a year and the first
\* request of the next year included.
C3_SleepBetweenRequests ==
    \A i \in 1..(Len(trace) - 1) : ~(IsRequest(trace[i]) /\ IsRequest(trace[i + 1]))

\* ---------------------------------------------------------------------- C4
\* C4: a page request answered with a non-success status is the last thing the
\* fetch does: no request follows it, nothing is returned to the caller,
\* process_data is not run and the run ends with an error and no table.
C4_FailFast ==
    \A i \in DOMAIN trace :
        (IsRequest(trace[i]) /\ trace[i].status # "ok") =>
            /\ i = Len(trace)
            /\ pc = "done"
            /\ outcome = "error"
            /\ data = Unset
            /\ result = Unset

C4_Witness ==
    /\ trace # <<>>
    /\ trace[Len(trace)].status # "ok"
    /\ all_data # <<>>
    /\ pc = "done"

\* ---------------------------------------------------------------------- C5
\* C5: for a year whose k non-empty pages were followed by the empty one, the
\* requests were exactly those at offsets 1, 1001, ..., 1 + 1000 k in that order
\* (for the year in progress, a prefix of them), and the sequence the fetch
\* returns is exactly the records of the non-empty pages of the years of the
\* range, each once.
C5_Pagination ==
    /\ \A y \in start_year..(year - 1) : ReqOffsets(y) = OffsetsUpTo(PageCount(store[y]))
    /\ \A y \in Years : IsPrefix(ReqOffsets(y), OffsetsUpTo(PageCount(store[y])))
    /\ data # Unset => data.rows = RangeRecords(start_year, end_year)

C5_Witness ==
    /\ pc = "done"
    /\ outcome # "error"
    /\ \E y \in start_year..end_year :
          /\ PageCount(store[y]) = 2
          /\ ReqOffsets(y) = <<1, 1 + RESULTS_PER_PAGE, 1 + 2 * RESULTS_PER_PAGE>>
    /\ Len(data.rows) >= 2

\* ---------------------------------------------------------------------- C6
\* C6: when the geocoder returned no match or could not be reached, the run is
\* over with an error, and no station search, no page request and no aggregation
\* took place.
C6_GeocodeFailureStops ==
    geo \in {"None", "unreachable"} =>
        /\ pc = "done"
        /\ outcome = "error"
        /\ searches = 0
        /\ station_id = "unset"
        /\ trace = <<>>
        /\ data = Unset
        /\ result = Unset

C6_Witness == geo = "None" /\ pc = "done" /\ outcome = "error"

\* ---------------------------------------------------------------------- C7
\* C7: every row of the table process_data returned holds, for its month, the
\* number of qualifying records of that month over all years divided by the number
\* of distinct years with at least one qualifying record in that month.
C7_MeanOverPresentYears ==
    result.kind = "table" =>
        \A i \in DOMAIN result.rows :
            LET m == MonthNumber(result.rows[i].month)
                avg == result.rows[i].days
            IN /\ QualifyingYears(m) # {}
               /\ avg.den > 0
               /\ avg.num * Cardinality(QualifyingYears(m))
                    = avg.den * Cardinality(QualifyingInMonth(m))

\* a month with three qualifying days over two years, and a third year whose only
\* record of that month is below the threshold: the mean is 3/2, not 1
C7_Witness ==
    /\ pc = "done"
    /\ result.kind = "table"
    /\ \E i \in DOMAIN result.rows :
          LET m == MonthNumber(result.rows[i].month) IN
          /\ result.rows[i].days = [num |-> 3, den |-> 2]
          /\ \E k \in DOMAIN data.rows :
                /\ data.rows[k].date[2] = m
                /\ data.rows[k].date[1] \notin QualifyingYears(m)

\* ---------------------------------------------------------------------- C8
\* C8: the records process_data counts are exactly those whose converted value is
\* >= the threshold: the count of each (year, month) group is the number of such
\* records, a group exists only where there is one, and the months of the
\* table are the months that have one; a value equal to the threshold counts.
C8_ThresholdFilter ==
    /\ monthly_counts(Filtered(Converted(data.rows), threshold_in))
         = { [year |-> y, month |-> m, days |-> Cardinality(QualifyingIn(y, m))]
             : <<y, m>> \in {ym \in DataYears \X (1..12) : QualifyingIn(ym[1], ym[2]) # {}} }
    /\ result.kind = "table" =>
         {result.rows[i].month : i \in DOMAIN result.rows}
           = {month_map[m] : m \in {n \in 1..12 : QualifyingInMonth(n) # {}}}

C8_Witness ==
    /\ pc = "done"
    /\ result.kind = "table"
    /\ \E k \in DOMAIN data.rows :
          /\ data.rows[k].value * MM_TO_INCHES = threshold_in
          /\ \E i \in DOMAIN result.rows :
                /\ result.rows[i].month = month_map[data.rows[k].date[2]]
                /\ result.rows[i].days = [num |-> 1, den |-> 1]
          /\ \A j \in DOMAIN data.rows : j # k => ~Qualifying(j)

AscendingYears ==
    \A i \in DOMAIN Requests :
        /\ Requests[i].year \in start_year..end_year
        /\ \A k \in DOMAIN Requests : i < k => Requests[i].year <= Requests[k].year

\* ---------------------------------------------------------------------- C9
\* C9: a fetch that was entered leaves its loops (it returns or raises), the
\* year it queries never decreases, and the requests it sent are for years of
\* [start_year, end_year] in ascending order.
C9_FetchTerminates ==
    /\ (pc \in {"for", "while"}) ~> (pc \in {"process", "done"})
    /\ [][year' >= year /\ AscendingYears']_vars

C9_Witness ==
    /\ pc = "process"
    /\ end_year > start_year
    /\ year = end_year + 1
    /\ \A y \in start_year..end_year : Len(ReqOffsets(y)) >= 2

\* --------------------------------------------------------------------- C10
\* C10: in a run with start_year > end_year the fetch sends no request and
\* returns an empty sequence, and the run that got as far as the fetch ends with
\* "no qualifying rain days", not with an error.
C10_EmptyRange ==
    start_year > end_year =>
        /\ NoRequest
        /\ data # Unset => data.rows = <<>>
        /\ (pc = "done" /\ station_id # "unset") =>
              /\ result = None
              /\ outcome = "no_qualifying"

C10_Witness ==
    /\ start_year > end_year
    /\ pc = "done"
    /\ data = Table(<<>>)
    /\ outcome = "no_qualifying"

====
